---- MODULE Spec2Model ----
(***************************************************************************)
(* Model of the "requests" API routes (PUT create, GET list, PATCH status  *)
(* update) and of ensureRequestsCollection, as a set of request handlers   *)
(* running concurrently on one event loop against one MongoDB database.    *)
(* Every `await` of a database call is a point where another handler may   *)
(* run, so each database call is an action of its own; the synchronous     *)
(* code between two awaits belongs to the action that precedes it.         *)
(*                                                                         *)
(* The ids and page numbers, which the code trims and parses, are          *)
(* sequences of characters.  The names and items, of which the code takes  *)
(* the length only, are sequences of runs [c, n]: the code point c, n      *)
(* times.  A supplementary plane code point counts two UTF-16 code units   *)
(* in String.length and one character in the $jsonSchema minLength and     *)
(* maxLength keywords.                                                     *)
(***************************************************************************)
EXTENDS Integers, Sequences, FiniteSets

\* ---------------------------------------------------------------- bounds
\* the documents the concurrent specification lets the collection hold
MaxRecords == 2
\* the documents the input-validation specification lets the collection hold
MaxRecordsSeq == 1
\* the documents the listing specification lets the collection hold
MaxRecordsList == 3
\* the last instant of the wall clock
MaxClock == 1

\* the requests in flight at the same time
Handlers == {"h1", "h2"}

\* ------------------------------------------------------- program constants
PAGINATION_PAGE_SIZE == 2

ALLOWED_STATUSES == {"pending", "completed", "approved", "rejected"}

\* the bounds validateCreateBody checks
NAME_MIN == 3
NAME_MAX == 30
ITEM_MIN == 2
ITEM_MAX == 100
\* the bounds of the $jsonSchema validator
SCHEMA_NAME_MIN == 3
SCHEMA_NAME_MAX == 30
SCHEMA_ITEM_MIN == 2
SCHEMA_ITEM_MAX == 100
SCHEMA_STATUSES == {"pending", "completed", "approved", "rejected"}

\* ------------------------------------------------------------ JS values
Null == [t |-> "null", v |-> <<>>]
Undefined == [t |-> "undefined", v |-> <<>>]
Num == [t |-> "number", v |-> <<>>]
Str(s) == [t |-> "string", v |-> s]
\* a status-like string value: an atomic string instead of a sequence
Null0 == [t |-> "null", v |-> ""]
Undefined0 == [t |-> "undefined", v |-> ""]
Num0 == [t |-> "number", v |-> ""]
Str0(s) == [t |-> "string", v |-> s]

\* the text of n times the code point c
Rep(c, n) == <<[c |-> c, n |-> n]>>

\* the string of n times the character c
Chars(c, n) == [i \in 1..n |-> c]

Astral == {"U+1F600"}
WhiteSpace == {" "}
Digits == <<"0", "1", "2", "3", "4", "5", "6", "7", "8", "9">>
HexLower == Digits \o <<"a", "b", "c", "d", "e", "f">>
HexUpper == Digits \o <<"A", "B", "C", "D", "E", "F">>

RECURSIVE JsLength(_)
\* String.prototype.length of a text: the number of UTF-16 code units
JsLength(s) ==
    IF s = <<>> THEN 0
    ELSE (IF Head(s).c \in Astral THEN 2 * Head(s).n ELSE Head(s).n) + JsLength(Tail(s))

RECURSIVE SchemaLength(_)
\* the length of a text for the $jsonSchema keywords: the number of code points
SchemaLength(s) ==
    IF s = <<>> THEN 0 ELSE Head(s).n + SchemaLength(Tail(s))

\* s.trim() === ""
TrimIsEmpty(s) == \A i \in 1..Len(s) : s[i] \in WhiteSpace

IndexIn(c, seq) == CHOOSE i \in 1..Len(seq) : seq[i] = c
InSeq(c, seq) == \E i \in 1..Len(seq) : seq[i] = c

\* ------------------------------------------------------------- ObjectId
\* An ObjectId is its 96-bit value; only small values occur in the model.
RECURSIVE ToHex(_, _)
\* ObjectId.prototype.toString(): n as len lower-case hexadecimal digits
ToHex(n, len) ==
    IF len = 0 THEN <<>>
    ELSE Append(ToHex(n \div 16, len - 1), HexLower[(n % 16) + 1])

HexValue(c) == IF InSeq(c, HexLower) THEN IndexIn(c, HexLower) - 1
               ELSE IndexIn(c, HexUpper) - 1

RECURSIVE FromHex(_)
\* new ObjectId(hexString): the value of a string of hexadecimal digits
FromHex(s) ==
    IF s = <<>> THEN 0
    ELSE 16 * FromHex(SubSeq(s, 1, Len(s) - 1)) + HexValue(s[Len(s)])

\* ObjectId.isValid(id) for a string id: 24 hexadecimal digits, either case
ObjectIdIsValid(s) ==
    /\ Len(s) = 24
    /\ \A i \in 1..Len(s) : InSeq(s[i], HexLower) \/ InSeq(s[i], HexUpper)

\* the ObjectId the driver gives the k-th inserted document
NewObjectId(k) == 9 + k

\* --------------------------------------------------------------- parseInt
NaN == [nan |-> TRUE, v |-> 0]
Int32(n) == [nan |-> FALSE, v |-> n]

RECURSIVE SkipSpace(_)
SkipSpace(s) ==
    IF s # <<>> /\ Head(s) \in WhiteSpace THEN SkipSpace(Tail(s)) ELSE s

RECURSIVE DigitPrefix(_)
DigitPrefix(s) ==
    IF s # <<>> /\ InSeq(Head(s), Digits)
    THEN <<Head(s)>> \o DigitPrefix(Tail(s))
    ELSE <<>>

RECURSIVE DecValue(_)
DecValue(s) ==
    IF s = <<>> THEN 0
    ELSE 10 * DecValue(SubSeq(s, 1, Len(s) - 1)) + (IndexIn(s[Len(s)], Digits) - 1)

\* parseInt(s, 10): leading white space, an optional sign, then the longest
\* run of decimal digits; NaN when that run is empty
parseInt(s) ==
    LET t == SkipSpace(s)
        neg == t # <<>> /\ Head(t) = "-"
        u == IF t # <<>> /\ Head(t) \in {"-", "+"} THEN Tail(t) ELSE t
        d == DigitPrefix(u)
    IN  IF d = <<>> THEN NaN
        ELSE Int32(IF neg THEN 0 - DecValue(d) ELSE DecValue(d))

\* ------------------------------------------------------------ validation
\* validateCreateBody without the upper bound of itemRequested
CreateBodyInvalid_NoItemMax(body) ==
    \/ body.t = "null"
    \/ body.requestorName.t # "string"
    \/ JsLength(body.requestorName.v) < NAME_MIN
    \/ JsLength(body.requestorName.v) > NAME_MAX
    \/ body.itemRequested.t # "string"
    \/ JsLength(body.itemRequested.v) < ITEM_MIN

\* validateCreateBody throws InvalidInputError
CreateBodyInvalid(body) ==
    \/ body.t = "null"
    \/ body.requestorName.t # "string"
    \/ JsLength(body.requestorName.v) < NAME_MIN
    \/ JsLength(body.requestorName.v) > NAME_MAX
    \/ body.itemRequested.t # "string"
    \/ JsLength(body.itemRequested.v) < ITEM_MIN
    \/ JsLength(body.itemRequested.v) > ITEM_MAX

\* validatePatchBody throws InvalidInputError("Invalid id")
PatchIdInvalid(body) ==
    \/ body.t = "null"
    \/ body.id.t # "string"
    \/ TrimIsEmpty(body.id.v)

\* validatePatchBody without the check against ALLOWED_STATUSES
PatchStatusInvalid_AnyString(body) ==
    \/ body.status.t # "string"

\* validatePatchBody throws InvalidInputError("Invalid status")
PatchStatusInvalid(body) ==
    \/ body.status.t # "string"
    \/ body.status.v \notin ALLOWED_STATUSES

\* the $jsonSchema validator of the collection accepts the document
SchemaValid(doc) ==
    /\ SchemaLength(doc.requestorName) >= SCHEMA_NAME_MIN
    /\ SchemaLength(doc.requestorName) <= SCHEMA_NAME_MAX
    /\ SchemaLength(doc.itemRequested) >= SCHEMA_ITEM_MIN
    /\ SchemaLength(doc.itemRequested) <= SCHEMA_ITEM_MAX
    /\ doc.status \in SCHEMA_STATUSES

\* ---------------------------------------------------------------- inputs
PutBody(name, item, status, created, edited) ==
    [t |-> "object", requestorName |-> name, itemRequested |-> item,
     status |-> status, createdDate |-> created, lastEditedDate |-> edited]

BadJson == [t |-> "bad-json"]
NullBody == [t |-> "null"]

A(n) == Str(Rep("a", n))

\* the request bodies a client sends to PUT
PutBodies ==
    { BadJson, NullBody,
      PutBody(A(3), A(2), Undefined0, Undefined, Undefined),
      PutBody(A(30), A(100), Str0("approved"), Num, Num),
      PutBody(A(2), A(2), Undefined0, Undefined, Undefined),
      PutBody(A(31), A(2), Undefined0, Undefined, Undefined),
      PutBody(A(3), A(1), Undefined0, Undefined, Undefined),
      PutBody(A(3), A(101), Str0("approved"), Undefined, Undefined),
      PutBody(Undefined, A(2), Undefined0, Undefined, Undefined),
      PutBody(A(3), Num, Undefined0, Undefined, Undefined),
      PutBody(Str(Rep("U+1F600", 2)), A(2), Undefined0, Undefined, Undefined),
      PutBody(Str(Rep("U+1F600", 16)), A(2), Undefined0, Undefined, Undefined) }

Query(status, page) == [t |-> "query", status |-> status, page |-> page]

\* the values of the page parameter: absent, or a string
PageParams ==
    { Null, Str(<<>>), Str(<<"1">>), Str(<<"2">>), Str(<<"3">>), Str(<<"0">>),
      Str(<<"-", "1">>), Str(<<"a">>), Str(<<"2", "a">>), Str(<<" ", "2">>) }

\* the values of the status parameter: absent, or a string
StatusParams ==
    { Null0, Str0(""), Str0("pending"), Str0("approved"), Str0("bogus") }

\* the query strings a client sends to GET
GetQueries ==
    {Query(Null0, p) : p \in PageParams}
        \cup {Query(s, Null) : s \in StatusParams}
        \cup {Query(Str0("pending"), Str(<<"2">>))}

PatchBody(id, status) == [t |-> "object", id |-> id, status |-> status]

\* the hexadecimal string of an ObjectId, in upper case
Upper(s) == [i \in 1..Len(s) |-> HexUpper[IndexIn(s[i], HexLower)]]

\* the ids a client sends to PATCH
PatchIds ==
    { Undefined, Num, Str(<<>>), Str(<<" ", " ">>), Str(<<"z", "z">>),
      Str(Chars("z", 24)), Str(Chars("0", 12)), Str(<<" ">> \o ToHex(NewObjectId(1), 24)) }
        \cup {Str(ToHex(NewObjectId(k), 24)) : k \in {1, MaxRecordsSeq + 1}}
        \cup {Str(Upper(ToHex(NewObjectId(1), 24)))}

PatchStatuses ==
    { Undefined0, Num0, Str0("bogus"), Str0(""), Str0("Pending") }
        \cup {Str0(s) : s \in ALLOWED_STATUSES}

\* the request bodies a client sends to PATCH
PatchBodies ==
    { BadJson, NullBody }
        \cup {PatchBody(i, Str0("approved")) : i \in PatchIds}
        \cup {PatchBody(Str(ToHex(NewObjectId(1), 24)), s) : s \in PatchStatuses}
        \cup {PatchBody(Str(<<"z", "z">>), Str0("bogus"))}

\* the requests of the concurrent specification: few kinds of request, so that
\* two handlers can be in flight at once
PutBodiesC ==
    { PutBody(A(30), A(100), Str0("approved"), Num, Num),
      PutBody(A(2), A(2), Undefined0, Undefined, Undefined) }

GetQueriesC ==
    { Query(Null0, Null), Query(Null0, Str(<<"0">>)) }

PatchBodiesC ==
    { PatchBody(Str(ToHex(NewObjectId(1), 24)), Str0("approved")),
      PatchBody(Str(ToHex(NewObjectId(MaxRecords + 1), 24)), Str0("approved")),
      PatchBody(Str(<<"z", "z">>), Str0("approved")) }

\* the requests of the listing specification: enough documents for several
\* pages, and few kinds of request
PutBodiesL ==
    { PutBody(A(3), A(2), Undefined0, Undefined, Undefined),
      PutBody(A(30), A(100), Str0("approved"), Num, Num),
      PutBody(A(2), A(2), Undefined0, Undefined, Undefined) }

GetQueriesL ==
    { Query(Null0, Null), Query(Null0, Str(<<"2">>)), Query(Str0("approved"), Null),
      Query(Null0, Str(<<"0">>)), Query(Str0("bogus"), Null), Query(Str0(""), Null) }

PatchBodiesL ==
    { PatchBody(Str(ToHex(NewObjectId(1), 24)), Str0("approved")),
      PatchBody(Str(ToHex(NewObjectId(2), 24)), Str0("approved")),
      PatchBody(Str(<<"z", "z">>), Str0("approved")) }

\* ----------------------------------------------------------------- state
VARIABLES
    collExists,     \* the database has a collection "requests" (with its validator)
    store,          \* the documents of the collection
    clock,          \* the wall clock, in milliseconds
    createIssued,   \* the createCollection commands issued so far
    pc,             \* per handler: the await it is suspended at
    req,            \* per handler: the request it serves
    loc,            \* per handler: its local variables
    resp            \* per handler: the response it returned

vars == <<collExists, store, clock, createIssued, pc, req, loc, resp>>

NoReq == [method |-> "NONE"]
NoResp == [kind |-> "NONE"]
NoLoc == [now |-> 0, counted |-> FALSE, totalCount |-> 0, found |-> FALSE, docs |-> <<>>]

\* new ServerResponseBuilder(ResponseType.INVALID_INPUT).build()
INVALID_INPUT == [kind |-> "INVALID_INPUT"]
\* new ServerResponseBuilder(ResponseType.UNKNOWN_ERROR).build()
UNKNOWN_ERROR == [kind |-> "UNKNOWN_ERROR"]
\* new Response(JSON.stringify(body), { status })
Response(status, body) == [kind |-> "RESPONSE", status |-> status, body |-> body]

Init ==
    /\ collExists = FALSE
    /\ store = {}
    /\ clock = 0
    /\ createIssued = 0
    /\ pc = [h \in Handlers |-> "idle"]
    /\ req = [h \in Handlers |-> NoReq]
    /\ loc = [h \in Handlers |-> NoLoc]
    /\ resp = [h \in Handlers |-> NoResp]

Free(h) == pc[h] \in {"idle", "done"}

\* the handler returns r
Return(h, r) ==
    /\ pc' = [pc EXCEPT ![h] = "done"]
    /\ resp' = [resp EXCEPT ![h] = r]
    /\ loc' = [loc EXCEPT ![h] = NoLoc]

\* the handler takes a request and has returned nothing yet
Accept(h, method, body) ==
    /\ req' = [req EXCEPT ![h] = [method |-> method, body |-> body]]

\* the handler suspends at its call of ensureRequestsCollection
Suspend(h) ==
    /\ pc' = [pc EXCEPT ![h] = "list"]
    /\ resp' = [resp EXCEPT ![h] = NoResp]
    /\ loc' = [loc EXCEPT ![h] = NoLoc]

\* PUT up to its first database call: request.json() and validateCreateBody.
\* A body that passes is taken only while the collection, with the documents
\* of the PUTs in flight, holds fewer than max documents.
PutStart(h, body, max) ==
    /\ Free(h)
    /\ (body.t # "bad-json" /\ ~CreateBodyInvalid(body))
          => Cardinality(store)
               + Cardinality({g \in Handlers : ~Free(g) /\ req[g].method = "PUT"}) < max
    /\ Accept(h, "PUT", body)
    /\ IF body.t = "bad-json" THEN Return(h, UNKNOWN_ERROR)
       ELSE IF CreateBodyInvalid(body) THEN Return(h, INVALID_INPUT)
       ELSE Suspend(h)
    /\ UNCHANGED <<collExists, store, clock, createIssued>>

\* the checks of GET with `page < 0` for `page < 1`
GetQueryInvalid_PageZero(q) ==
    LET page == parseInt(IF q.page.t = "null" \/ q.page.v = <<>> THEN <<"1">> ELSE q.page.v)
    IN  \/ page.nan
        \/ page.v < 0
        \/ (q.status.t # "null" /\ q.status.v # "" /\ q.status.v \notin ALLOWED_STATUSES)

\* the query of a GET is one the handler rejects before any database call
GetQueryInvalid(q) ==
    LET page == parseInt(IF q.page.t = "null" \/ q.page.v = <<>> THEN <<"1">> ELSE q.page.v)
    IN  \/ page.nan
        \/ page.v < 1
        \/ (q.status.t # "null" /\ q.status.v # "" /\ q.status.v \notin ALLOWED_STATUSES)

\* GET up to its first database call: the page and status checks
GetStart(h, q) ==
    /\ Free(h)
    /\ Accept(h, "GET", q)
    /\ IF GetQueryInvalid(q) THEN Return(h, INVALID_INPUT) ELSE Suspend(h)
    /\ UNCHANGED <<collExists, store, clock, createIssued>>

\* PATCH up to its first database call: request.json(), validatePatchBody and
\* ObjectId.isValid
PatchStart(h, body) ==
    /\ Free(h)
    /\ Accept(h, "PATCH", body)
    /\ IF body.t = "bad-json" THEN Return(h, UNKNOWN_ERROR)
       ELSE IF PatchIdInvalid(body) \/ PatchStatusInvalid(body)
               \/ ~ObjectIdIsValid(body.id.v)
            THEN Return(h, INVALID_INPUT)
       ELSE Suspend(h)
    /\ UNCHANGED <<collExists, store, clock, createIssued>>

\* the handler resumes after ensureRequestsCollection and getDb, runs up to its
\* next database call and suspends there; PUT and PATCH read the clock on the way
Resume(h) ==
    IF req[h].method = "GET"
    THEN /\ pc' = [pc EXCEPT ![h] = "query"]
         /\ UNCHANGED <<clock, loc>>
    ELSE \E now \in clock..MaxClock :
            /\ clock' = now
            /\ loc' = [loc EXCEPT ![h].now = now]
            /\ pc' = [pc EXCEPT ![h] = IF req[h].method = "PUT" THEN "insert" ELSE "update"]

\* ensureRequestsCollection: listCollections answers; when it finds no collection
\* the routine issues createCollection
EnsureList(h) ==
    /\ pc[h] = "list"
    /\ IF collExists
       THEN /\ Resume(h)
            /\ UNCHANGED createIssued
       ELSE /\ pc' = [pc EXCEPT ![h] = "create"]
            /\ createIssued' = createIssued + 1
            /\ UNCHANGED <<clock, loc>>
    /\ UNCHANGED <<collExists, store, req, resp>>

\* ensureRequestsCollection: createCollection creates the collection
EnsureCreate(h) ==
    /\ pc[h] = "create"
    /\ ~collExists
    /\ collExists' = TRUE
    /\ Resume(h)
    /\ UNCHANGED <<store, createIssued, req, resp>>

\* ensureRequestsCollection: createCollection finds the collection created in
\* the meantime and fails (NamespaceExists); the handler's catch answers
EnsureCreateFails(h) ==
    /\ pc[h] = "create"
    /\ collExists
    /\ Return(h, UNKNOWN_ERROR)
    /\ UNCHANGED <<collExists, store, clock, createIssued, req>>

\* ensureRequestsCollection: createCollection finds the collection created in
\* the meantime with the same options, which a server that treats the command
\* as idempotent answers with success
EnsureCreateNoop(h) ==
    /\ pc[h] = "create"
    /\ collExists
    /\ Resume(h)
    /\ UNCHANGED <<collExists, store, createIssued, req, resp>>

\* PUT taking the status of the body when the body has one
NewDoc_BodyStatus(body, now) ==
    [requestorName |-> body.requestorName.v,
     itemRequested |-> body.itemRequested.v,
     createdDate |-> now,
     lastEditedDate |-> now,
     status |-> IF body.status.t = "string" THEN body.status.v ELSE "pending"]

\* the document PUT builds from the body
NewDoc(body, now) ==
    [requestorName |-> body.requestorName.v,
     itemRequested |-> body.itemRequested.v,
     createdDate |-> now,
     lastEditedDate |-> now,
     status |-> "pending"]

WithId(id, doc) ==
    [_id |-> id,
     requestorName |-> doc.requestorName,
     itemRequested |-> doc.itemRequested,
     createdDate |-> doc.createdDate,
     lastEditedDate |-> doc.lastEditedDate,
     status |-> doc.status]

\* PUT: insertOne answers, and the handler returns
PutInsert(h) ==
    /\ pc[h] = "insert"
    /\ LET doc == NewDoc(req[h].body, loc[h].now)
           id == NewObjectId(Cardinality(store) + 1)
       IN  IF SchemaValid(doc)
           THEN /\ store' = store \cup {WithId(id, doc)}
                /\ Return(h, Response(201, WithId(ToHex(id, 24), doc)))
           ELSE /\ UNCHANGED store
                /\ Return(h, UNKNOWN_ERROR)
    /\ UNCHANGED <<collExists, clock, createIssued, req>>

\* the page number GET computes from the query
PageOf(q) ==
    parseInt(IF q.page.t = "null" \/ q.page.v = <<>> THEN <<"1">> ELSE q.page.v).v

\* the documents the query of GET selects: `if (status) query.status = status`
Matching(q) ==
    IF q.status.t = "null" \/ q.status.v = ""
    THEN store
    ELSE {d \in store : d.status = q.status.v}

\* the documents oldest first, as sort({ createdDate: 1 }) returns them
SortedDesc_Ascending(S) ==
    {s \in [1..Cardinality(S) -> S] :
        /\ \A i, j \in 1..Cardinality(S) : i # j => s[i] # s[j]
        /\ \A i, j \in 1..Cardinality(S) : i < j => s[i].createdDate <= s[j].createdDate}

\* find(query).sort({ createdDate: -1 }): the documents newest first, documents
\* of the same date in any order
SortedDesc(S) ==
    {s \in [1..Cardinality(S) -> S] :
        /\ \A i, j \in 1..Cardinality(S) : i # j => s[i] # s[j]
        /\ \A i, j \in 1..Cardinality(S) : i < j => s[i].createdDate >= s[j].createdDate}

Min(a, b) == IF a < b THEN a ELSE b
Max(a, b) == IF a > b THEN a ELSE b

\* .skip(skip).limit(pageSize)
SkipLimit(s, skip, limit) == SubSeq(s, skip + 1, Min(skip + limit, Len(s)))

\* Math.ceil(a / b) for a >= 0 and b > 0
Ceil(a, b) == IF a % b = 0 THEN a \div b ELSE (a \div b) + 1

\* the page count without its floor of one page
TotalPages_NoFloor(totalCount, pageSize) == Ceil(totalCount, pageSize)

\* Math.max(1, Math.ceil(totalCount / pageSize))
TotalPages(totalCount, pageSize) == Max(1, Ceil(totalCount, pageSize))

\* docs.map(...): a document as the list response shows it
Item(d) ==
    [id |-> ToHex(d._id, 24),
     requestorName |-> d.requestorName,
     itemRequested |-> d.itemRequested,
     createdDate |-> d.createdDate,
     lastEditedDate |-> d.lastEditedDate,
     status |-> d.status]

\* the response of GET once both countDocuments and find have answered
ListResponse(q, totalCount, docs) ==
    Response(200,
        [items |-> [i \in 1..Len(docs) |-> Item(docs[i])],
         pagination |-> [page |-> PageOf(q),
                         pageSize |-> PAGINATION_PAGE_SIZE,
                         totalPages |-> TotalPages(totalCount, PAGINATION_PAGE_SIZE),
                         totalCount |-> totalCount]])

\* GET: countDocuments answers; the handler returns if find has answered too
GetCount(h) ==
    /\ pc[h] = "query"
    /\ ~loc[h].counted
    /\ LET n == Cardinality(Matching(req[h].body))
       IN  IF loc[h].found
           THEN Return(h, ListResponse(req[h].body, n, loc[h].docs))
           ELSE /\ loc' = [loc EXCEPT ![h].counted = TRUE, ![h].totalCount = n]
                /\ UNCHANGED <<pc, resp>>
    /\ UNCHANGED <<collExists, store, clock, createIssued, req>>

\* GET: find answers; the handler returns if countDocuments has answered too.
\* The driver refuses a negative skip, which rejects Promise.all.
GetFind(h) ==
    /\ pc[h] = "query"
    /\ ~loc[h].found
    /\ \E sorted \in SortedDesc(Matching(req[h].body)) :
          LET skip == (PageOf(req[h].body) - 1) * PAGINATION_PAGE_SIZE
              docs == SkipLimit(sorted, skip, PAGINATION_PAGE_SIZE)
          IN  IF skip < 0
              THEN Return(h, UNKNOWN_ERROR)
              ELSE IF loc[h].counted
              THEN Return(h, ListResponse(req[h].body, loc[h].totalCount, docs))
              ELSE /\ loc' = [loc EXCEPT ![h].found = TRUE, ![h].docs = docs]
                   /\ UNCHANGED <<pc, resp>>
    /\ UNCHANGED <<collExists, store, clock, createIssued, req>>

\* an update document that sets createdDate as well
SetStatus_TouchCreated(d, status, now) ==
    [d EXCEPT !.status = status, !.lastEditedDate = now, !.createdDate = now]

\* an update document that leaves lastEditedDate alone
SetStatus_NoEditDate(d, status, now) ==
    [d EXCEPT !.status = status]

\* the update document of PATCH applied to d
SetStatus(d, status, now) ==
    [d EXCEPT !.status = status, !.lastEditedDate = now]

\* PATCH: findOneAndUpdate answers, and the handler returns
PatchUpdate(h) ==
    /\ pc[h] = "update"
    /\ LET oid == FromHex(req[h].body.id.v)
           found == {d \in store : d._id = oid}
       IN  IF found = {}
           THEN /\ UNCHANGED store
                /\ Return(h, INVALID_INPUT)
           ELSE LET d == CHOOSE x \in found : TRUE
                    e == SetStatus(d, req[h].body.status.v, loc[h].now)
                IN  IF SchemaValid(e)
                    THEN /\ store' = (store \ {d}) \cup {e}
                         /\ Return(h, Response(200, Item(e)))
                    ELSE /\ UNCHANGED store
                         /\ Return(h, UNKNOWN_ERROR)
    /\ UNCHANGED <<collExists, clock, createIssued, req>>

\* the steps after the first await, for handler h
Step(h) ==
    \/ EnsureList(h)
    \/ EnsureCreate(h)
    \/ PutInsert(h)
    \/ GetCount(h)
    \/ GetFind(h)
    \/ PatchUpdate(h)

\* any number of requests, two in flight at a time
Next ==
    \/ \E h \in Handlers, body \in PutBodiesC : PutStart(h, body, MaxRecords)
    \/ \E h \in Handlers, q \in GetQueriesC : GetStart(h, q)
    \/ \E h \in Handlers, body \in PatchBodiesC : PatchStart(h, body)
    \/ \E h \in Handlers : Step(h)
    \/ \E h \in Handlers : EnsureCreateFails(h)
    \/ \E h \in Handlers : EnsureCreateNoop(h)

\* any number of requests of every kind, one after the other
NextSeq ==
    \/ \E body \in PutBodies : PutStart("h1", body, MaxRecordsSeq)
    \/ \E q \in GetQueries : GetStart("h1", q)
    \/ \E body \in PatchBodies : PatchStart("h1", body)
    \/ Step("h1")

\* any number of requests, one after the other, over a collection of several
\* pages
NextList ==
    \/ \E body \in PutBodiesL : PutStart("h1", body, MaxRecordsList)
    \/ \E q \in GetQueriesL : GetStart("h1", q)
    \/ \E body \in PatchBodiesL : PatchStart("h1", body)
    \/ Step("h1")

Spec == Init /\ [][Next]_vars

SpecSeq == Init /\ [][NextSeq]_vars

SpecList == Init /\ [][NextList]_vars

\* ================================================================ claims
\* handler h takes a request of method m in this step
Takes(h, m) ==
    /\ Free(h)
    /\ req'[h].method = m
    /\ <<pc[h], req[h], resp[h]>> # <<pc'[h], req'[h], resp'[h]>>

\* handler h has answered a request of method m
Answered(h, m) == pc[h] = "done" /\ req[h].method = m

\* String.length of a text, counted as its code points plus one more for each
\* code point that takes a surrogate pair
Utf16Length(s) ==
    LET points[i \in 0..Len(s)] == IF i = 0 THEN 0 ELSE points[i - 1] + s[i].n
        pairs[i \in 0..Len(s)] ==
            IF i = 0 THEN 0
            ELSE pairs[i - 1] + (IF s[i].c = "U+1F600" THEN s[i].n ELSE 0)
    IN  points[Len(s)] + pairs[Len(s)]

\* a create body that the contract rejects: a field missing, not a string, or of
\* a length outside 3..30 (requestorName) and 2..100 (itemRequested)
RejectedCreateBody(body) ==
    /\ body.t = "object"
    /\ \/ body.requestorName.t # "string"
       \/ body.itemRequested.t # "string"
       \/ (body.requestorName.t = "string" /\ Utf16Length(body.requestorName.v) \notin 3..30)
       \/ (body.itemRequested.t = "string" /\ Utf16Length(body.itemRequested.v) \notin 2..100)

\* C1: a PUT whose body has a requestorName of length < 3 or > 30, or an
\* itemRequested of length < 2 or > 100, or either field missing or not a
\* string, returns the input-validation error at once: the stored records are
\* unchanged, no createCollection is issued and the handler never reaches
\* insertOne.
C1_InvalidCreateRejected ==
    [][\A h \in Handlers :
          (Takes(h, "PUT") /\ RejectedCreateBody(req'[h].body))
            => /\ pc'[h] = "done"
               /\ resp'[h] = INVALID_INPUT
               /\ store' = store
               /\ collExists' = collExists
               /\ createIssued' = createIssued]_vars

\* a PUT with an itemRequested of 101 characters was answered while documents
\* were stored
C1_Witness ==
    \E h \in Handlers :
        /\ Answered(h, "PUT")
        /\ req[h].body.t = "object"
        /\ req[h].body.itemRequested.t = "string"
        /\ Utf16Length(req[h].body.itemRequested.v) = 101
        /\ resp[h] = INVALID_INPUT
        /\ store # {}

\* C2: every document a PUT inserts has status "pending" and lastEditedDate
\* equal to createdDate, whatever status or dates the body carries, and the 201
\* response of that PUT carries the same values.
C2_CreatedPending ==
    [][\A d \in store' :
          (\A e \in store : e._id # d._id)
            => /\ d.status = "pending"
               /\ d.lastEditedDate = d.createdDate
               /\ \E h \in Handlers :
                     /\ pc[h] = "insert"
                     /\ pc'[h] = "done"
                     /\ resp'[h].kind = "RESPONSE"
                     /\ resp'[h].status = 201
                     /\ resp'[h].body.status = d.status
                     /\ resp'[h].body.createdDate = d.createdDate
                     /\ resp'[h].body.lastEditedDate = d.lastEditedDate]_vars

\* a PUT whose body carried status "approved" and dates was answered with 201
C2_Witness ==
    \E h \in Handlers :
        /\ Answered(h, "PUT")
        /\ req[h].body.t = "object"
        /\ req[h].body.status = Str0("approved")
        /\ req[h].body.createdDate.t = "number"
        /\ resp[h].kind = "RESPONSE"
        /\ resp[h].status = 201
        /\ \E d \in store : ToHex(d._id, 24) = resp[h].body._id

\* the decimal digits a page string starts with, after white space and a sign
LeadingDigits(s) ==
    LET first == IF \E i \in 1..Len(s) : s[i] # " "
                 THEN CHOOSE i \in 1..Len(s) : s[i] # " " /\ \A j \in 1..(i - 1) : s[j] = " "
                 ELSE Len(s) + 1
        from == IF first <= Len(s) /\ s[first] \in {"-", "+"} THEN first + 1 ELSE first
        stop == IF \E i \in from..Len(s) : ~InSeq(s[i], Digits)
                THEN CHOOSE i \in from..Len(s) :
                        ~InSeq(s[i], Digits) /\ \A j \in from..(i - 1) : InSeq(s[j], Digits)
                ELSE Len(s) + 1
    IN  [neg |-> first <= Len(s) /\ s[first] = "-", digits |-> SubSeq(s, from, stop - 1)]

\* the page string of a query, "1" when the parameter is absent or empty
PageString(q) == IF q.page.t = "null" \/ q.page.v = <<>> THEN <<"1">> ELSE q.page.v

\* a page string with no leading integer, or with one below 1
PageNaNOrBelowOne(q) ==
    LET d == LeadingDigits(PageString(q))
    IN  \/ d.digits = <<>>
        \/ d.neg
        \/ \A i \in 1..Len(d.digits) : d.digits[i] = "0"

\* the status parameter is absent, empty or one of the four statuses
StatusAccepted(q) ==
    q.status.t = "null" \/ q.status.v \in {"", "pending", "completed", "approved", "rejected"}

RejectedPatchBody(body) ==
    /\ body.t = "object"
    /\ \/ body.status.t # "string"
       \/ body.status.v \notin {"pending", "completed", "approved", "rejected"}
       \/ body.id.t # "string"
       \/ \A i \in 1..Len(body.id.v) : body.id.v[i] = " "
       \/ Len(body.id.v) # 24
       \/ \E i \in 1..Len(body.id.v) :
             body.id.v[i] \notin {"0", "1", "2", "3", "4", "5", "6", "7", "8", "9",
                                  "a", "b", "c", "d", "e", "f",
                                  "A", "B", "C", "D", "E", "F"}

\* C4: a PATCH whose status is not one of the four, or whose id is missing, not
\* a string, blank or not a valid ObjectId, returns the input-validation error
\* at once: no findOneAndUpdate is issued and every stored document is as it
\* was.
C4_InvalidPatchRejected ==
    [][\A h \in Handlers :
          (Takes(h, "PATCH") /\ RejectedPatchBody(req'[h].body))
            => /\ pc'[h] = "done"
               /\ resp'[h] = INVALID_INPUT
               /\ store' = store]_vars

\* a PATCH with status "bogus" for the id of a stored document was answered
C4_Witness ==
    \E h \in Handlers :
        /\ Answered(h, "PATCH")
        /\ req[h].body.t = "object"
        /\ req[h].body.status = Str0("bogus")
        /\ \E d \in store : ToHex(d._id, 24) = req[h].body.id.v
        /\ resp[h] = INVALID_INPUT

\* handler h returns from findOneAndUpdate with a 200 in this step
Updates(h) ==
    /\ pc[h] = "update"
    /\ pc'[h] = "done"
    /\ resp'[h].kind = "RESPONSE"
    /\ resp'[h].status = 200

\* C5: a PATCH that returns 200 on document r changes r.status to the requested
\* status and r.lastEditedDate to the time of the update, and nothing else:
\* r.requestorName, r.itemRequested, r.createdDate and r._id stay, and so does
\* every other document.
C5_UpdateFrame ==
    [][\A h \in Handlers :
          Updates(h)
            => \E r \in store, u \in store' :
                  /\ ToHex(r._id, 24) = resp'[h].body.id
                  /\ u._id = r._id
                  /\ u.status = req[h].body.status.v
                  /\ u.lastEditedDate = loc[h].now
                  /\ u.requestorName = r.requestorName
                  /\ u.itemRequested = r.itemRequested
                  /\ u.createdDate = r.createdDate
                  /\ store' \ {u} = store \ {r}
                  /\ Cardinality(store') = Cardinality(store)]_vars

\* a PATCH returned 200 for a document whose edit date is later than its
\* creation date, while a second document is stored
C5_Witness ==
    \E h \in Handlers :
        /\ Answered(h, "PATCH")
        /\ resp[h].kind = "RESPONSE"
        /\ resp[h].body.status = "approved"
        /\ resp[h].body.lastEditedDate > resp[h].body.createdDate
        /\ Cardinality(store) = 2

\* C6: in every 200 response of GET, pagination.totalPages is the least whole
\* number of pages of pageSize documents that hold totalCount documents, and at
\* least 1: it is 1 when nothing matches and never 0; totalCount is the number
\* of stored documents that match the status filter.
C6_TotalPages ==
    \A h \in Handlers :
        (Answered(h, "GET") /\ resp[h].kind = "RESPONSE")
          => LET p == resp[h].body.pagination
                 filter == req[h].body.status
             IN  /\ p.totalPages >= 1
                 /\ p.totalPages * p.pageSize >= p.totalCount
                 /\ p.totalPages > 1 => (p.totalPages - 1) * p.pageSize < p.totalCount
                 /\ p.totalCount = 0 => p.totalPages = 1
                 /\ p.totalCount =
                       Cardinality({d \in store :
                           filter.t = "null" \/ filter.v = "" \/ d.status = filter.v})

\* a GET was answered with two pages, for three matching documents
C6_Witness ==
    \E h \in Handlers :
        /\ Answered(h, "GET")
        /\ resp[h].kind = "RESPONSE"
        /\ resp[h].body.pagination.totalCount = 3
        /\ resp[h].body.pagination.totalPages = 2

\* C7: in every step, of any handler, every stored document stays stored with
\* its requestorName, itemRequested and createdDate; a document changes only in
\* a step in which a PATCH returns 200 for it, and that step sets its
\* lastEditedDate to the time of the update.
C7_Lifecycle ==
    [][\A r \in store :
          \E u \in store' :
              /\ u._id = r._id
              /\ u.requestorName = r.requestorName
              /\ u.itemRequested = r.itemRequested
              /\ u.createdDate = r.createdDate
              /\ \A v \in store' : v._id = r._id => v = u
              /\ u # r => \E h \in Handlers :
                              /\ Updates(h)
                              /\ resp'[h].body.id = ToHex(r._id, 24)
                              /\ u.lastEditedDate = loc[h].now]_vars

\* two documents are stored, one of them updated after a later instant than
\* its creation, while a handler is between two database calls
C7_Witness ==
    /\ Cardinality(store) = 2
    /\ \E d \in store : d.status = "approved" /\ d.lastEditedDate > d.createdDate
    /\ \E h \in Handlers : pc[h] \in {"list", "query", "insert", "update"}

\* C8, as the claim states it: every stored document has a requestorName of
\* length 3..30, an itemRequested of length 2..100 and one of the four
\* statuses, and no document that passed the checks of PUT or PATCH is one the
\* validator of the collection rejects.
C8_Original ==
    /\ \A d \in store :
          /\ Utf16Length(d.requestorName) \in 3..30
          /\ Utf16Length(d.itemRequested) \in 2..100
          /\ d.status \in {"pending", "completed", "approved", "rejected"}
    /\ \A h \in Handlers :
          pc[h] = "insert" => SchemaValid(NewDoc(req[h].body, loc[h].now))
    /\ \A h \in Handlers :
          pc[h] = "update"
            => \A d \in store : SchemaValid(SetStatus(d, req[h].body.status.v, loc[h].now))

\* C9, as the claim states it: createCollection is issued at most once, and no
\* handler returns the unknown-error response because the collection was
\* created between its listCollections and its createCollection.
C9_Original ==
    /\ createIssued <= 1
    /\ \A h \in Handlers :
          (pc[h] = "done" /\ req[h].body.t \in {"object", "query"})
            => resp[h] # UNKNOWN_ERROR

\* C10, as the claim states it: a PATCH with one of the four statuses and a
\* well-formed ObjectId that no stored document has returns the
\* input-validation error.
C10_Original ==
    \A h \in Handlers :
        (/\ Answered(h, "PATCH")
         /\ req[h].body.t = "object"
         /\ ~RejectedPatchBody(req[h].body)
         /\ \A d \in store : d._id # FromHex(req[h].body.id.v))
          => resp[h] = INVALID_INPUT

\* C11, as the claim states it: in every 200 response of GET, whatever create
\* requests run between its countDocuments and its find, the number of items is
\* at most max(0, totalCount - (page - 1) * pageSize).
C11_Original ==
    \A h \in Handlers :
        (Answered(h, "GET") /\ resp[h].kind = "RESPONSE")
          => LET p == resp[h].body.pagination
                 rest == p.totalCount - (p.page - 1) * p.pageSize
             IN  Len(resp[h].body.items) <= (IF rest > 0 THEN rest ELSE 0)

\* the page number a query asks for: the value of the leading integer of its
\* page string
PageNumber(q) ==
    LET d == LeadingDigits(PageString(q)).digits
        value[i \in 0..Len(d)] ==
            IF i = 0 THEN 0
            ELSE 10 * value[i - 1] + (CHOOSE k \in 0..9 : Digits[k + 1] = d[i])
    IN  value[Len(d)]

\* the query gives a status filter: the parameter is present and not empty
StatusGiven(q) == q.status.t = "string" /\ q.status.v # ""

\* the orders of the records S with no record before a newer one
NewestFirst(S) ==
    {o \in [1..Cardinality(S) -> S] :
        /\ \A d \in S : \E i \in 1..Cardinality(S) : o[i] = d
        /\ \A i \in 1..(Cardinality(S) - 1) : o[i].createdDate >= o[i + 1].createdDate}

\* item shows record d
Shows(item, d) ==
    /\ item.id = ToHex(d._id, 24)
    /\ item.requestorName = d.requestorName
    /\ item.itemRequested = d.itemRequested
    /\ item.createdDate = d.createdDate
    /\ item.lastEditedDate = d.lastEditedDate
    /\ item.status = d.status

\* C12: with one request at a time (no write between the GET's commands), a
\* GET with a status filter that is given (present and not empty) and is none
\* of the four statuses returns the input-validation error; a GET answered
\* with a list for page p returns 200 and exactly the records at positions
\* (p - 1) * pageSize + 1 .. p * pageSize of the records that match the filter,
\* in an order newest first by createdDate: at most pageSize items, every one
\* of the status asked for, and no item for a page beyond the last.
C12_QuiescentPage ==
    \A h \in Handlers :
        Answered(h, "GET")
          => LET q == req[h].body
             IN  /\ (StatusGiven(q)
                       /\ q.status.v \notin {"pending", "completed", "approved", "rejected"})
                      => resp[h] = INVALID_INPUT
                 /\ resp[h].kind = "RESPONSE"
                      => LET items == resp[h].body.items
                             matching == {d \in store : StatusGiven(q) => d.status = q.status.v}
                             n == Cardinality(matching)
                             first == (PageNumber(q) - 1) * PAGINATION_PAGE_SIZE + 1
                             last == PageNumber(q) * PAGINATION_PAGE_SIZE
                             positions == {i \in first..last : i <= n}
                         IN  /\ resp[h].status = 200
                             /\ Len(items) <= PAGINATION_PAGE_SIZE
                             /\ Len(items) = Cardinality(positions)
                             /\ first > n => items = <<>>
                             /\ \A i \in 1..Len(items) :
                                   StatusGiven(q) => items[i].status = q.status.v
                             /\ \E o \in NewestFirst(matching) :
                                   \A i \in 1..Len(items) : Shows(items[i], o[first + i - 1])

\* a GET for page 2 of three records was answered with the one record of the
\* third position, which is older than another record
C12_Witness ==
    \E h \in Handlers :
        /\ Answered(h, "GET")
        /\ req[h].body.page = Str(<<"2">>)
        /\ resp[h].kind = "RESPONSE"
        /\ Cardinality(store) = 3
        /\ Len(resp[h].body.items) = 1
        /\ \E d \in store : d.createdDate > resp[h].body.items[1].createdDate

====
